---- MODULE Spec2Model ----
(***************************************************************************)
(* mammon: a single-directory key/value blob store (src/src/lib.rs).       *)
(*                                                                         *)
(* The model keeps the three files of a store directory as byte sequences, *)
(* the Store's in-memory `indexes` and `empties`, and the cursor of each   *)
(* of the three file handles.  The CBOR documents ciborium writes and      *)
(* reads are modelled byte for byte (RFC 8949, definite lengths, which is  *)
(* what serde's derive produces for a HashMap, a Vec and a struct).        *)
(***************************************************************************)
EXTENDS Integers, Sequences, FiniteSets, TLC

(***************************************************************************)
(* Bounds of the model.                                                    *)
(***************************************************************************)
\* Successful mutating calls (store, delete) made on a directory since the
\* last create.
MaxMut == 3

\* Writes that fail on a directory since the last create.
MaxFault == 1

\* Keys are UTF-8 strings, kept as their bytes: "a" and "b".
KeyA == <<97>>
KeyB == <<98>>
Keys == {KeyA, KeyB}

\* Values handed to store: the empty value, a one-byte value and [1,2,3].
Values == {<< >>, <<9>>, <<1, 2, 3>>}

(***************************************************************************)
(* CBOR, as ciborium writes and reads it.                                  *)
(***************************************************************************)
\* Field names of struct Index, as UTF-8 bytes: "offset" and "length".
OffsetName == <<111, 102, 102, 115, 101, 116>>
LengthName == <<108, 101, 110, 103, 116, 104>>

\* An unsigned integer: major type 0, shortest form.
EncUint(n) ==
    IF n < 24 THEN <<n>>
    ELSE IF n < 256 THEN <<24, n>>
    ELSE <<25, n \div 256, n % 256>>

\* A text string: major type 3, length, then the bytes.
EncText(s) ==
    IF Len(s) < 24 THEN <<96 + Len(s)>> \o s ELSE <<120, Len(s)>> \o s

\* struct Index { offset, length } is a map of two named fields.
EncIndex(ix) ==
    <<162>> \o EncText(OffsetName) \o EncUint(ix.offset)
            \o EncText(LengthName) \o EncUint(ix.length)

\* A HashMap<String, Index> entry: the key then the Index.
EncEntry(e) == EncText(e.key) \o EncIndex([offset |-> e.offset, length |-> e.length])

RECURSIVE EncEntries(_)
EncEntries(es) ==
    IF es = << >> THEN << >> ELSE EncEntry(Head(es)) \o EncEntries(Tail(es))

\* The whole HashMap, its entries in the order the HashMap iterates them.
EncCatalog(es) == <<160 + Len(es)>> \o EncEntries(es)

RECURSIVE EncIndexes(_)
EncIndexes(v) ==
    IF v = << >> THEN << >> ELSE EncIndex(Head(v)) \o EncIndexes(Tail(v))

\* The whole Vec<Index>: an array of Index maps.
EncEmpties(v) == <<128 + Len(v)>> \o EncIndexes(v)

\* Every order in which a HashMap holding the entries S can iterate.
RECURSIVE Orders(_)
Orders(S) ==
    IF S = {} THEN {<< >>}
    ELSE UNION {{<<e>> \o p : p \in Orders(S \ {e})} : e \in S}

\* A failed read: the input ended, or the byte read does not fit the type.
DecFail == [ok |-> FALSE, next |-> 0]

\* Big-endian value of the w bytes of f that follow offset p.
RECURSIVE BigEndian(_, _, _)
BigEndian(f, p, w) ==
    IF w = 0 THEN 0 ELSE BigEndian(f, p, w - 1) * 256 + f[p + w]

\* The argument of the header at offset p (0-based) whose major type starts
\* at byte `major`: the low five bits, or the 1, 2, 4 or 8 bytes after it.
DecHeader(f, p, major) ==
    IF p >= Len(f) THEN DecFail
    ELSE LET b == f[p + 1] - major
         IN  IF b < 0 \/ b > 27 THEN DecFail
             ELSE IF b < 24 THEN [ok |-> TRUE, val |-> b, next |-> p + 1]
             ELSE LET w == 2 ^ (b - 24)
                  IN  IF p + 1 + w > Len(f) THEN DecFail
                      ELSE [ok |-> TRUE, val |-> BigEndian(f, p + 1, w),
                            next |-> p + 1 + w]

DecUint(f, p) == DecHeader(f, p, 0)

\* A String: a text header, then that many bytes of valid UTF-8 (only the
\* one-byte code points occur in the model).
DecText(f, p) ==
    LET h == DecHeader(f, p, 96)
    IN  IF ~h.ok THEN DecFail
        ELSE IF h.next + h.val > Len(f) THEN DecFail
        ELSE LET s == SubSeq(f, h.next + 1, h.next + h.val)
             IN  IF \E i \in 1..Len(s) : s[i] >= 128 THEN DecFail
                 ELSE [ok |-> TRUE, val |-> s, next |-> h.next + h.val]

\* The n fields of an Index map from offset p on; off and len are the
\* fields read so far (-1: not yet).  A field given twice, a field missing
\* at the end and a name that is not a field of Index fail the read (the
\* program writes no other name, so skipping unknown names is left out).
RECURSIVE DecFields(_, _, _, _, _)
DecFields(f, p, n, off, len) ==
    IF n = 0
    THEN IF off < 0 \/ len < 0 THEN DecFail
         ELSE [ok |-> TRUE, val |-> [offset |-> off, length |-> len], next |-> p]
    ELSE LET k == DecText(f, p)
         IN  IF ~k.ok THEN DecFail
             ELSE LET u == DecUint(f, k.next)
                  IN  IF ~u.ok THEN DecFail
                      ELSE IF k.val = OffsetName /\ off < 0
                           THEN DecFields(f, u.next, n - 1, u.val, len)
                      ELSE IF k.val = LengthName /\ len < 0
                           THEN DecFields(f, u.next, n - 1, off, u.val)
                      ELSE DecFail

DecIndex(f, p) ==
    LET h == DecHeader(f, p, 160)
    IN  IF ~h.ok THEN DecFail ELSE DecFields(f, h.next, h.val, -1, -1)

\* (an insert that keeps the entry a key already has)
Insert_keep(m, k, ix) ==
    IF \E e \in m : e.key = k THEN m
    ELSE m \cup {[key |-> k, offset |-> ix.offset, length |-> ix.length]}

\* HashMap::insert: the entry replaces any entry of the same key.
Insert(m, k, ix) ==
    {e \in m : e.key # k} \cup {[key |-> k, offset |-> ix.offset, length |-> ix.length]}

\* The n entries of a HashMap<String, Index> from offset p on, inserted
\* into m in the order read.
RECURSIVE DecEntries(_, _, _, _)
DecEntries(f, p, n, m) ==
    IF n = 0 THEN [ok |-> TRUE, val |-> m, next |-> p]
    ELSE LET k == DecText(f, p)
         IN  IF ~k.ok THEN DecFail
             ELSE LET ix == DecIndex(f, k.next)
                  IN  IF ~ix.ok THEN DecFail
                      ELSE DecEntries(f, ix.next, n - 1, Insert(m, k.val, ix.val))

\* ciborium::from_reader::<HashMap<String, Index>>: one document read from
\* the start of the file; what follows it in the file is not looked at.
DecCatalog(f) ==
    LET h == DecHeader(f, 0, 160)
    IN  IF ~h.ok THEN DecFail ELSE DecEntries(f, h.next, h.val, {})

RECURSIVE DecIndexes(_, _, _, _)
DecIndexes(f, p, n, v) ==
    IF n = 0 THEN [ok |-> TRUE, val |-> v, next |-> p]
    ELSE LET ix == DecIndex(f, p)
         IN  IF ~ix.ok THEN DecFail
             ELSE DecIndexes(f, ix.next, n - 1, Append(v, ix.val))

\* (a read that takes a file it cannot read for the empty list)
DecEmpties_or_default(f) ==
    LET h == DecHeader(f, 0, 128)
    IN  IF ~h.ok THEN [ok |-> TRUE, val |-> << >>, next |-> 0]
        ELSE DecIndexes(f, h.next, h.val, << >>)

\* ciborium::from_reader::<Vec<Index>>, likewise.
DecEmpties(f) ==
    LET h == DecHeader(f, 0, 128)
    IN  IF ~h.ok THEN DecFail ELSE DecIndexes(f, h.next, h.val, << >>)

(***************************************************************************)
(* The state: the directory, the Store and the record of the calls made.   *)
(***************************************************************************)
VARIABLES
    directory,            \* what the path is: "absent", "file" or "dir"
    mammon_blobs_bin,     \* the three files of the directory, each
    mammon_empties_cbor,  \*   [exists, data]: data is the file's bytes
    mammon_cbor,
    opened,               \* TRUE while a Store value is alive
    indexes,              \* Store.indexes: a set of [key, offset, length]
    empties,              \* Store.empties: a sequence of [offset, length]
                          \*   (while no Store is alive: those of the one
                          \*   dropped last)
    blob_file,            \* the cursor of each of the Store's file handles
    empty_file,
    db_file,
    ret,                  \* the last call and what it returned
    prev,                 \* the call before it
    sess,                 \* how this Store came to be and its mutations
    nmut,                 \* calls since the last create that wrote
    deleted,              \* the keys a delete removed and no store call
                          \*   was made for since
    nfault                \* writes that failed since the last create

vars == <<directory, mammon_blobs_bin, mammon_empties_cbor, mammon_cbor,
          opened, indexes, empties, blob_file, empty_file, db_file,
          ret, prev, sess, nmut, deleted, nfault>>

files == <<directory, mammon_blobs_bin, mammon_empties_cbor, mammon_cbor>>
memory == <<indexes, empties>>
handles == <<blob_file, empty_file, db_file>>

NoFile == [exists |-> FALSE, data |-> << >>]
FileOf(bytes) == [exists |-> TRUE, data |-> bytes]

\* What a directory can hold before the program first runs on it: each
\* file missing, empty or malformed (0xFF), or a valid list of no entries.
PreBlobs == {NoFile, FileOf(<< >>)}
PreEmpties == {NoFile, FileOf(<< >>), FileOf(<<255>>), FileOf(<<128>>)}
PreDb == {NoFile, FileOf(<< >>), FileOf(<<255>>)}

Call(op, key, val, status, data, size0) ==
    [op |-> op, key |-> key, val |-> val, status |-> status, data |-> data,
     size0 |-> size0]

NoCall == Call("none", << >>, << >>, "ok", << >>, 0)
NoSess == [origin |-> "none", muts |-> 0, dels |-> 0]

Init ==
    /\ directory \in {"absent", "file", "dir"}
    /\ mammon_blobs_bin \in IF directory = "dir" THEN PreBlobs ELSE {NoFile}
    /\ mammon_empties_cbor \in IF directory = "dir" THEN PreEmpties ELSE {NoFile}
    /\ mammon_cbor \in IF directory = "dir" THEN PreDb ELSE {NoFile}
    /\ opened = FALSE
    /\ indexes = {}
    /\ empties = << >>
    /\ blob_file = 0
    /\ empty_file = 0
    /\ db_file = 0
    /\ ret = NoCall
    /\ prev = NoCall
    /\ sess = NoSess
    /\ nmut = 0
    /\ deleted = {}
    /\ nfault = 0

(***************************************************************************)
(* Files and handles.                                                      *)
(***************************************************************************)
\* Path::exists and Path::is_dir on the directory argument.
exists(d) == d # "absent"

\* (exists taken for is_dir)
is_dir_exists(d) == d # "absent"

is_dir(d) == d = "dir"

\* fs::create_dir_all on a path that does not exist: it is a directory.
create_dir_all(d) == "dir"

\* (create without truncate(true): a file that is there keeps its bytes)
create_file_keep(f) == IF f.exists THEN f ELSE FileOf(<< >>)

\* OpenOptions read+write+create+truncate: the file exists and is empty.
create_file(f) == FileOf(<< >>)

\* OpenOptions read+write: fails when the file is not there.
open_file(f) == f.exists

\* (store without its seek: the write starts where the cursor is)
SeekEnd_missing(data, pos) == pos

\* File::seek(SeekFrom::End(0)): the cursor is the file's length.
SeekEnd(data, pos) == Len(data)

\* (retrieve without its seek: the read starts where the cursor is)
SeekStart_missing(data, pos, offset) == pos

\* File::seek(SeekFrom::Start(offset)).
SeekStart(data, pos, offset) == offset

\* (a write that replaces the file's content, as fs::write does)
write_all_replace(data, pos, bytes) == bytes

\* Write::write_all on a handle whose cursor is pos: the bytes replace what
\* the file holds from pos on and extend it where they reach past its end.
write_all(data, pos, bytes) ==
    SubSeq(data, 1, pos) \o bytes \o SubSeq(data, pos + Len(bytes) + 1, Len(data))

\* ciborium::into_writer(&x, &file): the document is written at the
\* handle's cursor; the file is neither rewound nor truncated.
into_writer(f, pos, doc) == FileOf(write_all(f.data, pos, doc))

\* HashMap::get and HashMap::remove.
Has(m, k) == \E e \in m : e.key = k
Get(m, k) == CHOOSE e \in m : e.key = k

\* (a remove that removes nothing)
Remove_nothing(m, k) == m

Remove(m, k) == {e \in m : e.key # k}

(***************************************************************************)
(* Store::new                                                              *)
(***************************************************************************)
new ==
    /\ ~opened
    /\ prev' = ret
    /\ IF exists(directory) /\ ~is_dir(directory)
       THEN /\ ret' = Call("create", << >>, << >>, "not a directory", << >>, 0)
            /\ UNCHANGED <<files, opened, memory, handles, sess, nmut, deleted, nfault>>
       ELSE /\ directory' = IF ~exists(directory) THEN create_dir_all(directory)
                                                  ELSE directory
            /\ mammon_blobs_bin' = create_file(mammon_blobs_bin)
            /\ mammon_empties_cbor' = create_file(mammon_empties_cbor)
            /\ mammon_cbor' = create_file(mammon_cbor)
            /\ opened' = TRUE
            /\ indexes' = {}
            /\ empties' = << >>
            /\ blob_file' = 0
            /\ empty_file' = 0
            /\ db_file' = 0
            /\ ret' = Call("create", << >>, << >>, "ok", << >>,
                           Len(mammon_blobs_bin.data))
            /\ sess' = [origin |-> "create", muts |-> 0, dels |-> 0]
            /\ nmut' = 0
            /\ nfault' = 0
            /\ UNCHANGED deleted

(***************************************************************************)
(* Store::open                                                             *)
(***************************************************************************)
OpenFails(status) ==
    /\ ret' = Call("open", << >>, << >>, status, << >>, 0)
    /\ UNCHANGED <<files, opened, memory, handles, sess, nmut, deleted, nfault>>

open ==
    /\ ~opened
    /\ prev' = ret
    /\ IF ~exists(directory) THEN OpenFails("does not exist")
       ELSE IF ~(open_file(mammon_blobs_bin) /\ open_file(mammon_empties_cbor)
                 /\ open_file(mammon_cbor))
       THEN OpenFails("io")
       ELSE LET db == DecCatalog(mammon_cbor.data)
                em == DecEmpties(mammon_empties_cbor.data)
            IN  IF ~db.ok \/ ~em.ok THEN OpenFails("cbor")
                ELSE /\ indexes' = db.val
                     /\ empties' = em.val
                     /\ blob_file' = 0
                     /\ empty_file' = em.next
                     /\ db_file' = db.next
                     /\ opened' = TRUE
                     /\ ret' = Call("open", << >>, << >>, "ok", << >>, 0)
                     /\ sess' = [origin |-> "open", muts |-> 0, dels |-> 0]
                     /\ UNCHANGED <<files, nmut, deleted, nfault>>

(***************************************************************************)
(* Store::store                                                            *)
(***************************************************************************)
\* (a store that hands the Location it supersedes to the Reclaim List)
store_reclaims(key, val) ==
    /\ opened
    /\ nmut < MaxMut
    /\ LET offset == SeekEnd(mammon_blobs_bin.data, blob_file)
           length == Len(val)
           ins == Insert(indexes, key, [offset |-> offset, length |-> length])
           old == {[offset |-> e.offset, length |-> e.length] :
                      e \in {x \in indexes : x.key = key}}
       IN  /\ mammon_blobs_bin' = FileOf(write_all(mammon_blobs_bin.data, offset, val))
           /\ blob_file' = offset + length
           /\ indexes' = ins
           /\ empties' = IF old = {} THEN empties
                                    ELSE Append(empties, CHOOSE l \in old : TRUE)
           /\ \E es \in Orders(ins) :
                 /\ mammon_cbor' = into_writer(mammon_cbor, db_file, EncCatalog(es))
                 /\ db_file' = db_file + Len(EncCatalog(es))
           /\ ret' = Call("store", key, val, "ok", << >>, Len(mammon_blobs_bin.data))
    /\ prev' = ret
    /\ sess' = [sess EXCEPT !.muts = @ + 1]
    /\ nmut' = nmut + 1
    /\ deleted' = deleted \ {key}
    /\ UNCHANGED <<directory, mammon_empties_cbor, opened, empty_file, nfault>>

store(key, val) ==
    /\ opened
    /\ nmut < MaxMut
    /\ LET offset == SeekEnd(mammon_blobs_bin.data, blob_file)
           length == Len(val)
           ins == Insert(indexes, key, [offset |-> offset, length |-> length])
       IN  /\ mammon_blobs_bin' = FileOf(write_all(mammon_blobs_bin.data, offset, val))
           /\ blob_file' = offset + length
           /\ indexes' = ins
           /\ \E es \in Orders(ins) :
                 /\ mammon_cbor' = into_writer(mammon_cbor, db_file, EncCatalog(es))
                 /\ db_file' = db_file + Len(EncCatalog(es))
           /\ ret' = Call("store", key, val, "ok", << >>, Len(mammon_blobs_bin.data))
    /\ prev' = ret
    /\ sess' = [sess EXCEPT !.muts = @ + 1]
    /\ nmut' = nmut + 1
    /\ deleted' = deleted \ {key}
    /\ UNCHANGED <<directory, mammon_empties_cbor, opened, empties, empty_file, nfault>>

(***************************************************************************)
(* Store::retrieve                                                         *)
(***************************************************************************)
\* Read::read_exact of n bytes at cursor pos: fails when the file ends first.
read_exact(data, pos, n) ==
    IF pos + n <= Len(data)
    THEN [ok |-> TRUE, buf |-> SubSeq(data, pos + 1, pos + n), next |-> pos + n]
    ELSE [ok |-> FALSE, buf |-> << >>, next |-> IF pos > Len(data) THEN pos ELSE Len(data)]

\* The body of retrieve on a Store holding the Catalog m, whose blob file
\* holds data and whose blob handle's cursor is pos: what it returns and
\* where it leaves the cursor.
Fetch(m, data, pos, key) ==
    IF ~Has(m, key)
    THEN [status |-> "key not found", buf |-> << >>, next |-> pos]
    ELSE LET index == Get(m, key)
             at == SeekStart(data, pos, index.offset)
             rd == read_exact(data, at, index.length)
         IN  [status |-> IF rd.ok THEN "ok" ELSE "eof", buf |-> rd.buf,
              next |-> rd.next]

retrieve(key) ==
    /\ opened
    /\ prev' = ret
    /\ LET r == Fetch(indexes, mammon_blobs_bin.data, blob_file, key)
       IN  /\ blob_file' = r.next
           /\ ret' = Call("retrieve", key, << >>, r.status, r.buf,
                          Len(mammon_blobs_bin.data))
    /\ UNCHANGED <<files, opened, memory, empty_file, db_file, sess, nmut, deleted, nfault>>

(***************************************************************************)
(* Store::delete                                                           *)
(***************************************************************************)
\* (a delete that takes an absent key for done)
delete_absent_ok(key) ==
    /\ opened
    /\ prev' = ret
    /\ IF ~Has(indexes, key)
       THEN /\ ret' = Call("delete", key, << >>, "ok", << >>,
                           Len(mammon_blobs_bin.data))
            /\ UNCHANGED <<files, opened, memory, handles, sess, nmut, deleted, nfault>>
       ELSE LET index == Get(indexes, key)
                pushed == Append(empties, [offset |-> index.offset,
                                           length |-> index.length])
                rest == Remove(indexes, key)
            IN  /\ nmut < MaxMut
                /\ empties' = pushed
                /\ indexes' = rest
                /\ \E es \in Orders(rest) :
                      /\ mammon_cbor' = into_writer(mammon_cbor, db_file, EncCatalog(es))
                      /\ db_file' = db_file + Len(EncCatalog(es))
                /\ mammon_empties_cbor' =
                      into_writer(mammon_empties_cbor, empty_file, EncEmpties(pushed))
                /\ empty_file' = empty_file + Len(EncEmpties(pushed))
                /\ ret' = Call("delete", key, << >>, "ok", << >>,
                               Len(mammon_blobs_bin.data))
                /\ sess' = [sess EXCEPT !.muts = @ + 1, !.dels = @ + 1]
                /\ nmut' = nmut + 1
                /\ deleted' = deleted \cup {key}
                /\ UNCHANGED <<directory, mammon_blobs_bin, opened, blob_file, nfault>>

delete(key) ==
    /\ opened
    /\ prev' = ret
    /\ IF ~Has(indexes, key)
       THEN /\ ret' = Call("delete", key, << >>, "key not found", << >>,
                           Len(mammon_blobs_bin.data))
            /\ UNCHANGED <<files, opened, memory, handles, sess, nmut, deleted, nfault>>
       ELSE LET index == Get(indexes, key)
                pushed == Append(empties, [offset |-> index.offset,
                                           length |-> index.length])
                rest == Remove(indexes, key)
            IN  /\ nmut < MaxMut
                /\ empties' = pushed
                /\ indexes' = rest
                /\ \E es \in Orders(rest) :
                      /\ mammon_cbor' = into_writer(mammon_cbor, db_file, EncCatalog(es))
                      /\ db_file' = db_file + Len(EncCatalog(es))
                /\ mammon_empties_cbor' =
                      into_writer(mammon_empties_cbor, empty_file, EncEmpties(pushed))
                /\ empty_file' = empty_file + Len(EncEmpties(pushed))
                /\ ret' = Call("delete", key, << >>, "ok", << >>,
                               Len(mammon_blobs_bin.data))
                /\ sess' = [sess EXCEPT !.muts = @ + 1, !.dels = @ + 1]
                /\ nmut' = nmut + 1
                /\ deleted' = deleted \cup {key}
                /\ UNCHANGED <<directory, mammon_blobs_bin, opened, blob_file, nfault>>

(***************************************************************************)
(* The Store is dropped: its handles close; nothing is written.            *)
(***************************************************************************)
Drop ==
    /\ opened
    /\ prev' = ret
    /\ opened' = FALSE
    /\ blob_file' = 0
    /\ empty_file' = 0
    /\ db_file' = 0
    /\ ret' = Call("drop", << >>, << >>, "ok", << >>, 0)
    /\ UNCHANGED <<files, memory, sess, nmut, deleted, nfault>>

Store == \E key \in Keys, val \in Values : store(key, val)
Retrieve == \E key \in Keys : retrieve(key)
Delete == \E key \in Keys : delete(key)

Next == new \/ open \/ Store \/ Retrieve \/ Delete \/ Drop

Spec == Init /\ [][Next]_vars

(***************************************************************************)
(* Store::store when the write of the Catalog fails: into_writer has       *)
(* written some of the document's bytes when the `?` at its call returns   *)
(* the error.  The blob bytes are written and the entry is inserted by     *)
(* then.                                                                   *)
(***************************************************************************)
\* How many bytes of a document a failed into_writer has written: the model
\* takes none and all but the last byte.
PartialWrites(doc) == {0, Len(doc) - 1}

\* The keys and values of the calls whose write fails: one key, the code
\* treating every key alike, with the empty value and one that holds bytes.
FaultKeys == {KeyA}

FaultValues == {<< >>, <<9>>}

store_persist_fails(key, val) ==
    /\ opened
    /\ nmut < MaxMut
    /\ nfault < MaxFault
    /\ nfault' = nfault + 1
    /\ LET offset == SeekEnd(mammon_blobs_bin.data, blob_file)
           length == Len(val)
           ins == Insert(indexes, key, [offset |-> offset, length |-> length])
       IN  /\ mammon_blobs_bin' = FileOf(write_all(mammon_blobs_bin.data, offset, val))
           /\ blob_file' = offset + length
           /\ indexes' = ins
           /\ \E es \in Orders(ins) :
                 \E n \in PartialWrites(EncCatalog(es)) :
                    /\ mammon_cbor' = into_writer(mammon_cbor, db_file,
                                                  SubSeq(EncCatalog(es), 1, n))
                    /\ db_file' = db_file + n
           /\ ret' = Call("store", key, val, "io", << >>, Len(mammon_blobs_bin.data))
    /\ prev' = ret
    /\ nmut' = nmut + 1
    /\ deleted' = deleted \ {key}
    /\ UNCHANGED <<directory, mammon_empties_cbor, opened, empties, empty_file, sess>>

StorePersistFails ==
    \E key \in FaultKeys, val \in FaultValues : store_persist_fails(key, val)

NextPersistFault ==
    new \/ open \/ Store \/ Retrieve \/ Delete \/ Drop \/ StorePersistFails

\* The program on a file system whose writes to mammon.cbor can fail.
SpecPersistFault == Init /\ [][NextPersistFault]_vars

(***************************************************************************)
(* Properties.                                                             *)
(***************************************************************************)
Succeeded(c, op) == c.op = op /\ c.status = "ok"
BlobSize == Len(mammon_blobs_bin.data)

\* C1: round trip.  A retrieve(k) made right after a successful store(k, v)
\* succeeds and returns exactly the bytes v, whatever their number.
C1_RoundTrip ==
    (Succeeded(prev, "store") /\ ret.op = "retrieve" /\ ret.key = prev.key)
        => (ret.status = "ok" /\ ret.data = prev.val)

\* The empty value, stored behind other bytes on a reopened Store, read back.
W_C1_RoundTrip ==
    /\ Succeeded(prev, "store") /\ ret.op = "retrieve" /\ ret.key = prev.key
    /\ ret.status = "ok" /\ ret.data = << >>
    /\ prev.val = << >> /\ prev.size0 > 0
    /\ sess.origin = "open"

\* C2: persistence across reopen.  After create, store("a", [1,2,3]) and
\* the drop of the Store, open succeeds and retrieve("a") on the Store it
\* returns gives [1,2,3].
C2_PersistAcrossReopen ==
    [][(/\ ret.op = "drop"
        /\ sess = [origin |-> "create", muts |-> 1, dels |-> 0]
        /\ indexes = {[key |-> KeyA, offset |-> 0, length |-> 3]}
        /\ mammon_blobs_bin.data = <<1, 2, 3>>
        /\ ret'.op = "open")
       => (/\ ret'.status = "ok"
           /\ LET r == Fetch(indexes', mammon_blobs_bin'.data, blob_file', KeyA)
              IN  r.status = "ok" /\ r.buf = <<1, 2, 3>>)]_vars

\* C3: durability of every mutation.  When a Store made by create, on
\* which two or more mutations succeeded, one of them a delete, is dropped,
\* the open that follows returns a Store whose Catalog and Reclaim List
\* are the ones the dropped Store held.
C3_DurableMutations ==
    [][(/\ ret.op = "drop"
        /\ sess.origin = "create" /\ sess.muts >= 2 /\ sess.dels >= 1
        /\ ret'.op = "open")
       => (ret'.status = "ok" /\ indexes' = indexes /\ empties' = empties)]_vars

\* C4: full replacement.  After every successful store or delete the file
\* mammon.cbor holds exactly one document, that of the Catalog in memory,
\* and after every successful delete the file mammon_empties.cbor holds
\* exactly one document, that of the Reclaim List in memory.
C4_FullReplacement ==
    /\ (Succeeded(ret, "store") \/ Succeeded(ret, "delete"))
          => \E es \in Orders(indexes) : mammon_cbor.data = EncCatalog(es)
    /\ Succeeded(ret, "delete")
          => mammon_empties_cbor.data = EncEmpties(empties)

\* C5: delete then miss.  Right after a successful delete(k), retrieve(k)
\* fails with key-not-found and so does a second delete(k), also when it
\* comes after that retrieve.
C5_DeleteThenMiss ==
    /\ (Succeeded(prev, "delete") /\ ret.op \in {"retrieve", "delete"}
            /\ ret.key = prev.key)
          => ret.status = "key not found"
    /\ (prev.op = "retrieve" /\ prev.status = "key not found"
            /\ ret.op = "delete" /\ ret.key = prev.key)
          => ret.status = "key not found"

\* A key stored and deleted, and the second delete of it failing.
W_C5_DeleteThenMiss ==
    /\ Succeeded(prev, "delete") /\ ret.op = "delete" /\ ret.key = prev.key
    /\ ret.status = "key not found"
    /\ sess.origin = "create" /\ sess.muts = 2 /\ sess.dels = 1

\* Two Locations share no byte.
Disjoint(a, b) ==
    \/ a.length = 0 \/ b.length = 0
    \/ a.offset + a.length <= b.offset
    \/ b.offset + b.length <= a.offset

\* C6: overwrite.  After store(k, v1) then store(k, v2), retrieve(k)
\* returns v2, the Catalog has one entry for k, the Blob Log has grown by
\* len(v1) + len(v2), and the bytes of v1 are still in it, where no Catalog
\* entry refers to them.
C6_Overwrite ==
    (Succeeded(prev, "store") /\ Succeeded(ret, "store") /\ ret.key = prev.key)
        => LET r == Fetch(indexes, mammon_blobs_bin.data, blob_file, ret.key)
               v1 == [offset |-> prev.size0, length |-> Len(prev.val)]
           IN  /\ r.status = "ok" /\ r.buf = ret.val
               /\ Cardinality({e \in indexes : e.key = ret.key}) = 1
               /\ BlobSize = prev.size0 + Len(prev.val) + Len(ret.val)
               /\ SubSeq(mammon_blobs_bin.data, v1.offset + 1,
                         v1.offset + v1.length) = prev.val
               /\ \A e \in indexes : Disjoint(e, v1)

\* [1,2,3] overwritten by a value of another length.
W_C6_Overwrite ==
    /\ Succeeded(prev, "store") /\ Succeeded(ret, "store") /\ ret.key = prev.key
    /\ prev.val = <<1, 2, 3>> /\ ret.val = <<9>>
    /\ BlobSize = prev.size0 + 4

\* C7: the Catalog invariant.  On an open Store every Catalog entry lies
\* within the Blob Log, and no two entries share a byte.
C7_CatalogInvariant ==
    opened =>
        /\ \A e \in indexes : e.offset + e.length <= BlobSize
        /\ \A e1, e2 \in indexes : e1 # e2 => Disjoint(e1, e2)

\* Two entries that hold bytes, on a Store that was reopened.
W_C7_CatalogInvariant ==
    /\ opened /\ sess.origin = "open"
    /\ \E e1, e2 \in indexes : e1.key # e2.key /\ e1.length > 0 /\ e2.length > 0

\* C8: growth monotonicity.  No call on an open Store, store or delete,
\* successful or failing, makes the Blob Log shorter.
C8_GrowthMonotonic ==
    [][(opened /\ opened') => Len(mammon_blobs_bin'.data) >= BlobSize]_vars

\* A store that made the log longer right after a delete that failed.
W_C8_GrowthMonotonic ==
    /\ prev.op = "delete" /\ prev.status = "key not found"
    /\ Succeeded(ret, "store") /\ ret.size0 > 0 /\ BlobSize > ret.size0

\* A metadata file open cannot load: missing, empty or not a document.
Missing(f) == ~f.exists
Empty(f) == f.exists /\ f.data = << >>
MalformedDb(f) == f.exists /\ f.data # << >> /\ ~DecCatalog(f.data).ok
MalformedEmpties(f) == f.exists /\ f.data # << >> /\ ~DecEmpties(f.data).ok

C10_CreateOnNonDirectory ==
    [][(directory = "file" /\ ret'.op = "create" /\ ~opened)
       => (ret'.status = "not a directory" /\ ~opened'
           /\ UNCHANGED files)]_vars

\* create refused on a path that is a regular file.
W_C10_CreateOnNonDirectory ==
    /\ ret.op = "create" /\ ret.status = "not a directory"
    /\ directory = "file" /\ ~opened
    /\ Missing(mammon_blobs_bin) /\ Missing(mammon_cbor)
    /\ Missing(mammon_empties_cbor)

\* C11: create on a directory that holds a store leaves all three files
\* empty and returns a Store with an empty Catalog and an empty Reclaim
\* List: retrieve fails with key-not-found for every key.
C11_CreateTruncates ==
    Succeeded(ret, "create") =>
        /\ Empty(mammon_blobs_bin) /\ Empty(mammon_cbor)
        /\ Empty(mammon_empties_cbor)
        /\ opened /\ indexes = {} /\ empties = << >>
        /\ \A k \in Keys :
              Fetch(indexes, mammon_blobs_bin.data, blob_file, k).status
                  = "key not found"

\* create on the directory of a Store that was dropped with bytes in its
\* Blob Log.
W_C11_CreateTruncates ==
    /\ Succeeded(ret, "create") /\ ret.size0 > 0 /\ prev.op = "drop"
    /\ Empty(mammon_blobs_bin)

\* C12: retrieve is read-only.  Whether it succeeds or fails it leaves the
\* Catalog, the Reclaim List and the three files as they were, and what a
\* later call does is not changed by it: the metadata cursors are where
\* they were, every retrieve returns what it would have returned, and a
\* store appends at the offset it would have appended at.
C12_RetrieveReadOnly ==
    [][(opened /\ ret'.op = "retrieve")
       => (/\ UNCHANGED <<files, memory, opened, empty_file, db_file>>
           /\ SeekEnd(mammon_blobs_bin'.data, blob_file')
                 = SeekEnd(mammon_blobs_bin.data, blob_file)
           /\ \A k \in Keys :
                 LET after == Fetch(indexes', mammon_blobs_bin'.data, blob_file', k)
                     before == Fetch(indexes, mammon_blobs_bin.data, blob_file, k)
                 IN  after.status = before.status /\ after.buf = before.buf)]_vars

\* A retrieve that left the cursor of the blob file short of its end.
W_C12_RetrieveReadOnly ==
    /\ Succeeded(ret, "retrieve") /\ Len(ret.data) > 0
    /\ blob_file < BlobSize /\ empties # << >>

\* C13: store leaves the Reclaim List alone, in memory and in
\* mammon_empties.cbor, also when the key has a Catalog entry.
C13_StoreLeavesReclaimList ==
    [][(opened /\ ret'.op = "store")
       => UNCHANGED <<empties, mammon_empties_cbor>>]_vars

\* A store of a key that the retrieve before it found, on a Store whose
\* Reclaim List has an entry.
W_C13_StoreLeavesReclaimList ==
    /\ Succeeded(prev, "retrieve") /\ Succeeded(ret, "store")
    /\ ret.key = prev.key
    /\ empties # << >> /\ ~Empty(mammon_empties_cbor)

\* C14: a successful delete(key) removes the entry of key and no other from
\* the Catalog, appends that entry's Location to the Reclaim List, whose
\* earlier elements stay, and leaves the Blob Log as it was.
C14_DeleteMovesEntry ==
    [][(opened /\ ret'.op = "delete" /\ ret'.status = "ok")
       => (/\ Has(indexes, ret'.key)
           /\ LET e == Get(indexes, ret'.key)
              IN  /\ indexes' = indexes \ {e}
                  /\ empties' = Append(empties, [offset |-> e.offset,
                                                 length |-> e.length])
           /\ UNCHANGED mammon_blobs_bin)]_vars

\* A delete that left the other entry in the Catalog and put a Location
\* that holds bytes on the Reclaim List.
W_C14_DeleteMovesEntry ==
    /\ Succeeded(ret, "delete") /\ indexes # {}
    /\ Len(empties) = 1 /\ empties[1].length > 0
    /\ ~Has(indexes, ret.key)

\* C15: delete of a key the Catalog does not hold fails with key-not-found
\* and leaves the Catalog, the Reclaim List and the three files as they
\* were.
C15_DeleteAbsent ==
    [][(opened /\ ret'.op = "delete" /\ ~Has(indexes, ret'.key))
       => (ret'.status = "key not found" /\ UNCHANGED <<files, memory>>)]_vars

\* The delete of an absent key on a Store that holds an entry and a
\* reclaimed Location.
W_C15_DeleteAbsent ==
    /\ ret.op = "delete" /\ ret.status = "key not found"
    /\ indexes # {} /\ empties # << >>

\* The entry a store call (failed or not) put in the Catalog.
NewEntry(c) == [key |-> c.key, offset |-> c.size0, length |-> Len(c.val)]

\* What open would load from the bytes of mammon.cbor holds the entry e.
OnDisk(bytes, e) == DecCatalog(bytes).ok /\ e \in DecCatalog(bytes).val

\* C16: torn state.  When store has appended to the Blob Log and the write
\* of the Catalog fails, it returns the error, the Catalog in memory maps
\* the key to the new Location, the Blob Log keeps the bytes, and the
\* Catalog on disk does not hold the new entry.
C16_TornState ==
    (ret.op = "store" /\ ret.status = "io") =>
        /\ NewEntry(ret) \in indexes
        /\ BlobSize = ret.size0 + Len(ret.val)
        /\ SubSeq(mammon_blobs_bin.data, ret.size0 + 1, BlobSize) = ret.val
        /\ ~OnDisk(mammon_cbor.data, NewEntry(ret))

\* C16 as amended: the same, but the Catalog on disk holds the new entry
\* where it held an equal one before the call, which takes an empty value.
C16_TornStateAmended ==
    [][(opened /\ ret'.op = "store" /\ ret'.status = "io")
       => (/\ NewEntry(ret') \in indexes'
           /\ Len(mammon_blobs_bin'.data) = BlobSize + Len(ret'.val)
           /\ SubSeq(mammon_blobs_bin'.data, 1, BlobSize) = mammon_blobs_bin.data
           /\ SubSeq(mammon_blobs_bin'.data, BlobSize + 1,
                     Len(mammon_blobs_bin'.data)) = ret'.val
           /\ OnDisk(mammon_cbor'.data, NewEntry(ret'))
                 => (ret'.val = << >> /\ OnDisk(mammon_cbor.data, NewEntry(ret'))))
      ]_vars

\* A failed store of a value that holds bytes, behind a document that open
\* can load, and some of the new document written.
W_C16_TornStateAmended ==
    /\ ret.op = "store" /\ ret.status = "io" /\ Len(ret.val) > 0
    /\ NewEntry(ret) \in indexes
    /\ DecCatalog(mammon_cbor.data).ok
    /\ Len(mammon_cbor.data) > DecCatalog(mammon_cbor.data).next

\* The sequence a is a prefix of the sequence b.
IsPrefix(a, b) == Len(a) <= Len(b) /\ SubSeq(b, 1, Len(a)) = a

\* C17: the Reclaim List only grows.  Across store, retrieve, delete and a
\* drop followed by open, the Reclaim List before is a prefix of the
\* Reclaim List after, and store puts its bytes at the end of the Blob Log.
C17_ReclaimListGrows ==
    [][(ret'.op # "create")
       => (/\ IsPrefix(empties, empties')
           /\ (ret'.op = "store" /\ ret'.status = "ok")
                 => (/\ NewEntry(ret') \in indexes'
                     /\ ret'.size0 = BlobSize
                     /\ SubSeq(mammon_blobs_bin'.data, 1, BlobSize)
                           = mammon_blobs_bin.data))]_vars

\* C18: every successful store records in the Catalog the Location whose
\* offset is the length the Blob Log had and whose length is that of the
\* value, makes the Blob Log that much longer and leaves the bytes it held
\* as they were, wherever a retrieve left the cursor of the blob file.
C18_BlobLogAppend ==
    [][(opened /\ ret'.op = "store" /\ ret'.status = "ok")
       => (/\ [key |-> ret'.key, offset |-> BlobSize, length |-> Len(ret'.val)]
                 \in indexes'
           /\ Cardinality({e \in indexes' : e.key = ret'.key}) = 1
           /\ Len(mammon_blobs_bin'.data) = BlobSize + Len(ret'.val)
           /\ SubSeq(mammon_blobs_bin'.data, 1, BlobSize) = mammon_blobs_bin.data
           /\ SubSeq(mammon_blobs_bin'.data, BlobSize + 1,
                     Len(mammon_blobs_bin'.data)) = ret'.val)]_vars

\* A store made right after the retrieve of another key, whose bytes end
\* before the end of the log: the cursor was short of the end.
W_C18_BlobLogAppend ==
    /\ Succeeded(prev, "retrieve") /\ Succeeded(ret, "store")
    /\ prev.key # ret.key /\ Len(prev.data) > 0 /\ Len(ret.val) > 0
    /\ Has(indexes, prev.key)
    /\ Get(indexes, prev.key).offset + Get(indexes, prev.key).length < ret.size0

\* C19: a deleted key stays deleted.  On an open Store, also one that open
\* returned, retrieve fails with key-not-found for every key that was
\* deleted and not stored since.
C19_DeletedStaysDeleted ==
    opened =>
        \A k \in deleted :
            Fetch(indexes, mammon_blobs_bin.data, blob_file, k).status
                = "key not found"

\* C20: on an open Store no Location of the Reclaim List shares a byte
\* with a Catalog entry, and no two Locations of the Reclaim List share a
\* byte.
C20_LiveAndReclaimedDisjoint ==
    opened =>
        /\ \A e \in indexes : \A i \in 1..Len(empties) : Disjoint(e, empties[i])
        /\ \A i, j \in 1..Len(empties) : i # j => Disjoint(empties[i], empties[j])

====
